---- MODULE Spec2Model ----
(***************************************************************************)
(* goWake: one call of Send / SendWithInterface (wol.go) as a state        *)
(* machine over the OS interface table and the socket layer.               *)
(*                                                                         *)
(* Values                                                                  *)
(*   byte slice ([]byte, net.IP, net.IPMask)  sequence of 0..255           *)
(*   string argument (mac)                    sequence of 1-char strings   *)
(*   error                                    sequence of error kinds, the *)
(*                                            chain errors.Join builds;    *)
(*                                            <<>> is the nil error        *)
(*   net.Addr interface value                 [type, IP]; type "nil" is    *)
(*                                            the nil interface            *)
(***************************************************************************)
EXTENDS Integers, Sequences, FiniteSets, TLC

\* ------------------------------------------------------------- bounds
\* Protocol is an int: the selectors tried are -1 .. MaxProtocol.
MaxProtocol == 2
\* A write without error reports 0 bytes, or falls short of the packet by at
\* most MaxShortfall bytes (see WriteCounts).
MaxShortfall == 2
\* The address lists ipFromInterface is tried on hold at most MaxAddrs entries.
MaxAddrs == 3

\* ------------------------------------------------------------- program constants
PacketLen == 102
InitialDefaultPort == 9
ReadBufLen == 1024
ReadDeadlineSeconds == 2
Discard == 0
Echo == 1

InitialDefaultBroadcast == <<255, 255, 255, 255>>

NilErr == <<>>
NilBytes == <<>>
NoConn == [id |-> 0, network |-> "", laddr |-> <<>>, raddr |-> <<>>, port |-> 0]
NilIPNet == [IP |-> <<>>, Mask |-> <<>>]
NilAddr == [type |-> "nil", IP |-> <<>>]

\* ------------------------------------------------------------- bytes
RECURSIVE And8(_, _, _)
\* a & b over the low n bits.
And8(a, b, n) ==
    IF n = 0 THEN 0
    ELSE (IF a % 2 = 1 /\ b % 2 = 1 THEN 1 ELSE 0) + 2 * And8(a \div 2, b \div 2, n - 1)

RECURSIVE Or8(_, _, _)
\* a | b over the low n bits.
Or8(a, b, n) ==
    IF n = 0 THEN 0
    ELSE (IF a % 2 = 1 \/ b % 2 = 1 THEN 1 ELSE 0) + 2 * Or8(a \div 2, b \div 2, n - 1)

RECURSIVE Xor8(_, _, _)
\* a ^ b over the low n bits.
Xor8(a, b, n) ==
    IF n = 0 THEN 0
    ELSE (IF a % 2 # b % 2 THEN 1 ELSE 0) + 2 * Xor8(a \div 2, b \div 2, n - 1)

\* bytes.Equal
BytesEqual(a, b) == Len(a) = Len(b) /\ \A i \in 1..Len(a) : a[i] = b[i]

\* ------------------------------------------------------------- errors
\* errors.Join(a, b): one error value that wraps both.
Join(a, b) == a \o b
\* errors.Is on the chain.
IsErr(err, kind) == \E i \in 1..Len(err) : err[i] = kind

\* ------------------------------------------------------------- net.IP
V4InV6Prefix == <<0, 0, 0, 0, 0, 0, 0, 0, 0, 0, 255, 255>>

\* net.IPv4(a, b, c, d): the 16-byte IPv4-mapped form.
IPv4(a, b, c, d) == V4InV6Prefix \o <<a, b, c, d>>

\* IP.To4: the 4-byte form, or nil (<<>>) when ip is no IPv4 address.
To4(ip) ==
    IF Len(ip) = 4 THEN ip
    ELSE IF Len(ip) = 16 /\ SubSeq(ip, 1, 12) = V4InV6Prefix THEN SubSeq(ip, 13, 16)
    ELSE <<>>

\* IP.IsLoopback: 127.0.0.0/8, or ::1.
IsLoopback(ip) ==
    IF To4(ip) # <<>> THEN To4(ip)[1] = 127
    ELSE ip = <<0, 0, 0, 0, 0, 0, 0, 0, 0, 0, 0, 0, 0, 0, 0, 1>>

\* IP.String: the text of the address. Dotted decimal for every form To4
\* accepts (the 4-byte and the 16-byte form print alike), colon-hex for other
\* 16-byte addresses, "<nil>" for the empty slice, "?hex" for any other length.
IPString(ip) ==
    IF Len(ip) = 0 THEN [form |-> "<nil>", octets |-> <<>>]
    ELSE IF To4(ip) # <<>> THEN [form |-> "dotted", octets |-> To4(ip)]
    ELSE IF Len(ip) = 16 THEN [form |-> "colonhex", octets |-> ip]
    ELSE [form |-> "?hex", octets |-> ip]

\* ------------------------------------------------------------- MAC codec, packet encoder
HexDigits ==
    [c \in {"0", "1", "2", "3", "4", "5", "6", "7", "8", "9"} |->
        CASE c = "0" -> 0 [] c = "1" -> 1 [] c = "2" -> 2 [] c = "3" -> 3 [] c = "4" -> 4
          [] c = "5" -> 5 [] c = "6" -> 6 [] c = "7" -> 7 [] c = "8" -> 8 [] c = "9" -> 9]
    @@ [c \in {"a", "b", "c", "d", "e", "f"} |->
        CASE c = "a" -> 10 [] c = "b" -> 11 [] c = "c" -> 12 [] c = "d" -> 13
          [] c = "e" -> 14 [] c = "f" -> 15]
    @@ [c \in {"A", "B", "C", "D", "E", "F"} |->
        CASE c = "A" -> 10 [] c = "B" -> 11 [] c = "C" -> 12 [] c = "D" -> 13
          [] c = "E" -> 14 [] c = "F" -> 15]

\* The hex characters of a MAC string with its separators taken out: six pairs
\* separated throughout by ":" or throughout by "-", or twelve characters with
\* no separator; <<>> for any other shape.
StripSeparators(s) ==
    IF Len(s) = 12 THEN s
    ELSE IF /\ Len(s) = 17
            /\ s[3] \in {":", "-"}
            /\ \A k \in 1..5 : s[3 * k] = s[3]
         THEN [i \in 1..12 |-> s[i + ((i - 1) \div 2)]]
    ELSE <<>>

\* MacAddress codec (spec 4.1): the six octets of the string, or
\* InvalidAddressFormat.
ParseMAC(s) ==
    LET h == StripSeparators(s)
    IN  IF Len(h) = 12 /\ \A i \in 1..12 : h[i] \in DOMAIN HexDigits
        THEN [mac |-> [k \in 1..6 |-> 16 * HexDigits[h[2 * k - 1]] + HexDigits[h[2 * k]]],
              err |-> NilErr]
        ELSE [mac |-> <<>>, err |-> <<"InvalidAddressFormat">>]

\* NewMagicPacket(mac): the packet value for a MAC string (it holds the parsed
\* MAC), or the codec's error.
NewMagicPacket(s) == ParseMAC(s)

\* packet.Marshal() (spec 4.2): six 0xFF bytes, then the MAC sixteen times;
\* no failure once the MAC is valid.
Marshal(mac) ==
    [data |-> [i \in 1..PacketLen |-> IF i <= 6 THEN 255 ELSE mac[((i - 7) % 6) + 1]],
     err |-> NilErr]

\* ------------------------------------------------------------- OS interface table
IPNet(ip, mask) == [type |-> "IPNet", IP |-> ip, Mask |-> mask]

\* The addresses iface.Addrs() lists for each interface of the host. An IPv4
\* address is stored as 4 bytes (windows) or as the 16-byte IPv4-mapped form
\* (linux, bsd), its mask as 4 bytes.
Interfaces ==
    [n \in {"eth0", "eth1", "wlan0", "br0", "lo", "tun0"} |->
        CASE n = "eth0" -> << IPNet(<<192, 168, 1, 42>>, <<255, 255, 255, 0>>) >>
          [] n = "eth1" -> << IPNet(IPv4(10, 0, 0, 5), <<255, 0, 0, 0>>) >>
          [] n = "wlan0" -> << IPNet(<<254, 128, 0, 0, 0, 0, 0, 0, 0, 0, 0, 0, 0, 0, 0, 1>>,
                                     <<255, 255, 255, 255, 255, 255, 255, 255,
                                       0, 0, 0, 0, 0, 0, 0, 0>>),
                               [type |-> "IPAddr", IP |-> <<172, 16, 5, 1>>, Mask |-> <<>>],
                               IPNet(<<127, 0, 0, 2>>, <<255, 0, 0, 0>>),
                               IPNet(<<172, 16, 5, 9>>, <<255, 255, 0, 0>>),
                               IPNet(<<10, 9, 8, 7>>, <<255, 255, 255, 0>>) >>
          [] n = "br0" -> << IPNet(<<10, 1, 2, 3>>, <<0, 0, 0, 0>>) >>
          [] n = "lo" -> << IPNet(<<127, 0, 0, 1>>, <<255, 0, 0, 0>>),
                            IPNet(<<0, 0, 0, 0, 0, 0, 0, 0, 0, 0, 0, 0, 0, 0, 0, 1>>,
                                  <<255, 255, 255, 255, 255, 255, 255, 255,
                                    255, 255, 255, 255, 255, 255, 255, 255>>) >>
          [] n = "tun0" -> << >>]

\* The interface names a caller passes: none, each interface of the host, and a
\* name no interface has.
IfaceNames == {"", "nope0"} \cup DOMAIN Interfaces

\* The loop's condition on one listed address.
Suitable(addr) == addr.type = "IPNet" /\ ~IsLoopback(addr.IP) /\ To4(addr.IP) # <<>>

RECURSIVE FirstSuitable(_)
\* Lines 141-147: the loop over the listed addresses, in list order.
FirstSuitable(addrs) ==
    IF addrs = <<>>
    THEN [ipnet |-> NilIPNet, err |-> <<"NoIPv4Address">>]
    ELSE IF Suitable(Head(addrs))
    THEN [ipnet |-> [IP |-> Head(addrs).IP, Mask |-> Head(addrs).Mask], err |-> NilErr]
    ELSE FirstSuitable(Tail(addrs))

\* The loop with the loopback test left out.
SelectAddrWithLoopback(addrs, addrsFail) ==
    IF addrsFail \/ Len(addrs) = 0
    THEN [ipnet |-> NilIPNet, err |-> <<"NoAddressForInterface">>]
    ELSE LET ok == {i \in 1..Len(addrs) : addrs[i].type = "IPNet" /\ To4(addrs[i].IP) # <<>>}
         IN  IF ok = {}
             THEN [ipnet |-> NilIPNet, err |-> <<"NoIPv4Address">>]
             ELSE LET i == CHOOSE k \in ok : \A j \in ok : k <= j
                  IN  [ipnet |-> [IP |-> addrs[i].IP, Mask |-> addrs[i].Mask], err |-> NilErr]

\* Lines 136-147 of ipFromInterface: the addresses of the interface found.
\* addrsFail: iface.Addrs() returned an error.
SelectAddr(addrs, addrsFail) ==
    IF addrsFail \/ Len(addrs) = 0
    THEN [ipnet |-> NilIPNet, err |-> <<"NoAddressForInterface">>]
    ELSE FirstSuitable(addrs)

\* ipFromInterface without the check of InterfaceByName's error: an unknown
\* name is reported like an interface without addresses.
ipFromInterfaceUnchecked(name, addrsFail) ==
    IF name \notin DOMAIN Interfaces
    THEN [ipnet |-> NilIPNet, err |-> <<"NoAddressForInterface">>]
    ELSE SelectAddr(Interfaces[name], addrsFail)

\* ipFromInterface(name).
ipFromInterface(name, addrsFail) ==
    IF name \notin DOMAIN Interfaces
    THEN [ipnet |-> NilIPNet, err |-> <<"InterfaceNotFound">>]
    ELSE SelectAddr(Interfaces[name], addrsFail)

\* subnetBroadcastIP with the parentheses misplaced: ip & (mask | inverted).
subnetBroadcastIPMisgrouped(ipnet) ==
    IF Len(ipnet.IP) > Len(ipnet.Mask)
    THEN [panic |-> TRUE, ip |-> <<>>, err |-> NilErr, ipnet |-> ipnet]
    ELSE [panic |-> FALSE,
          ipnet |-> ipnet,
          ip |-> [i \in 1..Len(ipnet.IP) |->
                     LET invertedMask == Xor8(ipnet.Mask[i], 255, 8)
                     IN  And8(ipnet.IP[i], Or8(ipnet.Mask[i], invertedMask, 8), 8)],
          err |-> NilErr]

\* subnetBroadcastIP(ipnet): the loop runs over the address's bytes and indexes
\* the mask with the same index, so it panics (index out of range) when the
\* address is longer than the mask. The result is a slice of its own; ipnet
\* is the argument as the call leaves it.
subnetBroadcastIP(ipnet) ==
    IF Len(ipnet.IP) > Len(ipnet.Mask)
    THEN [panic |-> TRUE, ip |-> <<>>, err |-> NilErr, ipnet |-> ipnet]
    ELSE [panic |-> FALSE,
          ipnet |-> ipnet,
          ip |-> [i \in 1..Len(ipnet.IP) |->
                     LET invertedMask == Xor8(ipnet.Mask[i], 255, 8)
                     IN  Or8(And8(ipnet.IP[i], ipnet.Mask[i], 8), invertedMask, 8)],
          err |-> NilErr]

\* net.ResolveUDPAddr("udp", fmt.Sprintf("%s:%d", ip.String(), port)): only a
\* dotted-decimal host makes a host:port the resolver accepts; an unbracketed
\* colon-hex host has too many colons, "<nil>" and "?..." name no host.
ResolveUDPAddr(ip, port) ==
    LET host == IPString(ip)
    IN  IF host.form = "dotted" /\ port \in 0..65535
        THEN [addr |-> [IP |-> host.octets, Port |-> port], err |-> NilErr]
        ELSE [addr |-> [IP |-> <<>>, Port |-> 0], err |-> <<"DestinationResolutionFailed">>]

\* ------------------------------------------------------------- inputs and environment
MACStrings ==
    { <<"A", "A", ":", "B", "B", ":", "C", "C", ":", "D", "D", ":", "E", "E", ":", "F", "F">>,
      <<"0", "0", "-", "1", "1", "-", "2", "2", "-", "3", "3", "-", "4", "4", "-", "5", "5">>,
      <<"a", "a", "b", "b", "c", "c", "d", "d", "e", "e", "f", "f">>,
      <<"A", "A", ":", "B", "B", ":", "C", "C", ":", "D", "D", ":", "E", "E">>,
      <<"G", "G", ":", "B", "B", ":", "C", "C", ":", "D", "D", ":", "E", "E", ":", "F", "F">>,
      <<>> }

Protocols == -1..MaxProtocol

WriteCounts == {0} \cup ((PacketLen - MaxShortfall)..PacketLen)

\* What conn.Write reports: an error, or a byte count without error.
WriteOutcomes ==
    {[n |-> 0, err |-> <<"WriteError">>]} \cup {[n |-> k, err |-> NilErr] : k \in WriteCounts}

\* What the peer and the socket do to the one read: nothing arrives ("silent"),
\* the read fails ("error"), or a reply arrives: the bytes sent ("echo"), the
\* bytes sent with the last byte changed ("altered"), without the last byte
\* ("truncated"), or with one more byte ("extended").
ReadOutcomes == {"silent", "error", "echo", "altered", "truncated", "extended"}

\* The behaviour of the OS and the network during one call.
NetBehaviours ==
    [addrsFail : BOOLEAN, dialOK : BOOLEAN, write : WriteOutcomes, read : ReadOutcomes]

\* The bytes a reply of the given kind carries, for the bytes sent.
ReplyBytes(kind, sent) ==
    CASE kind = "echo" -> sent
      [] kind = "altered" ->
            [i \in 1..Len(sent) |-> IF i = Len(sent) THEN (sent[i] + 1) % 256 ELSE sent[i]]
      [] kind = "truncated" -> SubSeq(sent, 1, Len(sent) - 1)
      [] kind = "extended" -> sent \o <<0>>
      [] OTHER -> <<>>

\* ------------------------------------------------------------- state
VARIABLES
    DefaultPort,        \* package variable (wol.go:12)
    DefaultBroadcast,   \* package variable (wol.go:13)
    pc,                 \* where the call stands
    viaSend,            \* the call entered through Send
    mac, iface, protocol,   \* the arguments
    net,                \* the environment's behaviour during the call
    localAddr,          \* SendWithInterface's localAddr (a net.Addr)
    broadcastAddr,      \* SendWithInterface's broadcastAddr
    conn,               \* the sender's conn, NoConn before the dial
    data,               \* the marshalled packet
    deadline,           \* the read deadline set on conn, 0 when none
    ret,                \* what the call returned: [res, err, panic]
    openSockets,        \* the sockets that are open
    ops,                \* how often the call resolved, opened, wrote, read
    wire,               \* the packets handed to the network, in order
    self,               \* the goroutine whose call the variables above hold
    other,              \* the call of the other goroutine, while it does not run
    probe               \* a direct call of one of the pure functions

vars == <<DefaultPort, DefaultBroadcast, pc, viaSend, mac, iface, protocol, net, localAddr,
          broadcastAddr, conn, data, deadline, ret, openSockets, ops, wire, self, other,
          probe>>

globals == <<DefaultPort, DefaultBroadcast>>
args == <<viaSend, mac, iface, protocol, net>>
outside == <<self, other, probe>>

NoRet == [res |-> NilBytes, err |-> NilErr, panic |-> ""]
NoOps == [resolve |-> 0, open |-> 0, write |-> 0, read |-> 0]

\* No call is in progress: the locals of a call that has not started.
IdleCall ==
    /\ pc = "Idle"
    /\ viaSend = FALSE
    /\ mac = <<>>
    /\ iface = ""
    /\ protocol = Discard
    /\ localAddr = NilAddr
    /\ broadcastAddr = <<>>
    /\ conn = NoConn
    /\ data = NilBytes
    /\ deadline = 0
    /\ ret = NoRet
    /\ ops = NoOps

\* The call of a goroutine that has not started it, as `other` holds it.
IdleContext(n) ==
    [pc |-> "Idle", viaSend |-> FALSE, mac |-> <<>>, iface |-> "", protocol |-> Discard,
     net |-> n, localAddr |-> NilAddr, broadcastAddr |-> <<>>, conn |-> NoConn,
     data |-> NilBytes, deadline |-> 0, ret |-> NoRet, ops |-> NoOps]

\* A network on which everything works and the peer echoes.
QuietNet ==
    [addrsFail |-> FALSE, dialOK |-> TRUE, write |-> [n |-> PacketLen, err |-> NilErr],
     read |-> "echo"]

NoProbe == [fn |-> "none"]

\* The process as it starts: the package variables as initialised, no socket,
\* nothing sent.
ProcessStart ==
    /\ DefaultPort = InitialDefaultPort
    /\ DefaultBroadcast = InitialDefaultBroadcast
    /\ openSockets = {}
    /\ wire = <<>>
    /\ self = 1

\* One goroutine, one call.
Init ==
    /\ ProcessStart
    /\ IdleCall
    /\ net \in NetBehaviours
    /\ other = IdleContext(QuietNet)
    /\ probe = NoProbe

\* return res, err: the call ends with a result.
Returns(res, err) ==
    /\ pc' = "Returned"
    /\ ret' = [res |-> res, err |-> err, panic |-> ""]

\* A run-time panic leaves the call; nothing in these functions recovers it.
Panics(msg) ==
    /\ pc' = "Panicked"
    /\ ret' = [res |-> NilBytes, err |-> NilErr, panic |-> msg]

\* x.(T) on a net.Addr: holds only if x is not the nil interface and holds a T.
TypeAssertion(x, T) == x.type = T

\* conn.Close() called at the end of the function instead of deferred: the
\* early error returns skip it.
CloseOnSuccessOnly(socks, c, err) == IF err = NilErr THEN socks \ {c} ELSE socks

\* defer conn.Close(): runs when the function returns, whatever it returns.
DeferredClose(socks, c, err) == socks \ {c}

\* ------------------------------------------------------------- SendWithInterface
\* Lines 33-37: the declarations, and the test of iface.
Enter(m, i, p, s) ==
    /\ pc = "Idle"
    /\ mac' = m /\ iface' = i /\ protocol' = p /\ viaSend' = s
    /\ localAddr' = NilAddr
    /\ broadcastAddr' = DefaultBroadcast
    /\ pc' = IF i # "" THEN "resolve" ELSE "switch"
    /\ UNCHANGED <<globals, outside, net, conn, data, deadline, ret, openSockets, ops, wire>>

Send == \E m \in MACStrings : Enter(m, "", Discard, TRUE)

SendWithInterface == \E m \in MACStrings, i \in IfaceNames, p \in Protocols : Enter(m, i, p, FALSE)

\* The interface step with the computed broadcast address dropped: the
\* destination stays DefaultBroadcast.
ResolveInterfaceKeepsDefault ==
    /\ pc = "resolve"
    /\ ops' = [ops EXCEPT !.resolve = @ + 1]
    /\ LET r == ipFromInterface(iface, net.addrsFail)
       IN  IF r.err # NilErr
           THEN /\ Returns(NilBytes, Join(<<"UnableToGetAddress">>, r.err))
                /\ UNCHANGED localAddr
           ELSE IF subnetBroadcastIP(r.ipnet).panic
           THEN /\ Panics("index out of range")
                /\ localAddr' = [type |-> "UDPAddr", IP |-> r.ipnet.IP]
           ELSE /\ pc' = "switch"
                /\ localAddr' = [type |-> "UDPAddr", IP |-> r.ipnet.IP]
                /\ UNCHANGED ret
    /\ UNCHANGED <<globals, outside, args, broadcastAddr, conn, data, deadline, openSockets,
                   wire>>

\* Lines 38-47: ipFromInterface, then subnetBroadcastIP.
ResolveInterface ==
    /\ pc = "resolve"
    /\ ops' = [ops EXCEPT !.resolve = @ + 1]
    /\ LET r == ipFromInterface(iface, net.addrsFail)
       IN  IF r.err # NilErr
           THEN /\ Returns(NilBytes, Join(<<"UnableToGetAddress">>, r.err))
                /\ UNCHANGED <<localAddr, broadcastAddr>>
           ELSE LET b == subnetBroadcastIP(r.ipnet)
                IN  IF b.panic
                    THEN /\ Panics("index out of range")
                         /\ localAddr' = [type |-> "UDPAddr", IP |-> r.ipnet.IP]
                         /\ UNCHANGED broadcastAddr
                    ELSE IF b.err # NilErr
                    THEN /\ Returns(NilBytes, Join(<<"UnableToCalculateBroadcast">>, b.err))
                         /\ localAddr' = [type |-> "UDPAddr", IP |-> r.ipnet.IP]
                         /\ broadcastAddr' = b.ip
                    ELSE /\ pc' = "switch"
                         /\ localAddr' = [type |-> "UDPAddr", IP |-> r.ipnet.IP]
                         /\ broadcastAddr' = b.ip
                         /\ UNCHANGED ret
    /\ UNCHANGED <<globals, outside, args, conn, data, deadline, openSockets, wire>>

\* The switch without its default case: any selector but Echo is sent as Discard.
SwitchWithoutDefault ==
    /\ pc = "switch"
    /\ pc' = IF protocol = Echo THEN "icmp_dial" ELSE "udp_dial"
    /\ UNCHANGED <<globals, outside, args, localAddr, broadcastAddr, conn, data, deadline, ret,
                   openSockets, ops, wire>>

\* Lines 50-57: the switch on protocol.
Switch ==
    /\ pc = "switch"
    /\ IF protocol = Discard THEN pc' = "udp_dial" /\ UNCHANGED ret
       ELSE IF protocol = Echo THEN pc' = "icmp_dial" /\ UNCHANGED ret
       ELSE Returns(NilBytes, <<"UnsupportedProtocol">>)
    /\ UNCHANGED <<globals, outside, args, localAddr, broadcastAddr, conn, data, deadline,
                   openSockets, ops, wire>>

\* The descriptor the OS hands out: the lowest one not in use.
LowestFree(socks) == CHOOSE d \in 1..(Cardinality(socks) + 1) :
                        d \notin socks /\ \A e \in 1..(d - 1) : e \in socks

\* A dial that succeeds: the next socket, open, connected from laddr to raddr.
Dialled(network, laddr, raddr, port) ==
    /\ conn' = [id |-> LowestFree(openSockets), network |-> network, laddr |-> laddr,
                raddr |-> raddr, port |-> port]
    /\ openSockets' = openSockets \cup {LowestFree(openSockets)}
    /\ ops' = [ops EXCEPT !.open = @ + 1]

\* conn.Write in a loop that writes again after a short count.
WrittenWithRetry(w) ==
    LET again == w.err = NilErr /\ w.n # PacketLen
        sent == [by |-> self, network |-> conn.network, src |-> conn.laddr,
                 dst |-> conn.raddr, port |-> conn.port, payload |-> SubSeq(data, 1, w.n)]
    IN  /\ ops' = [ops EXCEPT !.write = IF again THEN @ + 2 ELSE @ + 1]
        /\ wire' = IF w.err # NilErr THEN wire
                   ELSE IF again THEN wire \o <<sent, sent>>
                   ELSE Append(wire, sent)

\* conn.Write(data) as the environment answers it: without error the first n
\* bytes of data leave on conn.
Written(w) ==
    /\ ops' = [ops EXCEPT !.write = @ + 1]
    /\ wire' = IF w.err = NilErr
               THEN Append(wire, [by |-> self, network |-> conn.network, src |-> conn.laddr,
                                  dst |-> conn.raddr, port |-> conn.port,
                                  payload |-> SubSeq(data, 1, w.n)])
               ELSE wire

\* ------------------------------------------------------------- sendUDPDiscard
\* Lines 62-71: resolve the destination, convert localAddr, dial, defer Close.
DialUDP ==
    /\ pc = "udp_dial"
    /\ LET r == ResolveUDPAddr(broadcastAddr, DefaultPort)
       IN  IF r.err # NilErr
           THEN Returns(NilBytes, r.err) /\ UNCHANGED <<conn, openSockets, ops>>
           ELSE IF ~TypeAssertion(localAddr, "UDPAddr")
           THEN Panics("interface conversion") /\ UNCHANGED <<conn, openSockets, ops>>
           ELSE IF ~net.dialOK
           THEN Returns(NilBytes, <<"SocketError">>) /\ UNCHANGED <<conn, openSockets, ops>>
           ELSE /\ Dialled("udp", localAddr.IP, r.addr.IP, r.addr.Port)
                /\ pc' = "udp_encode"
                /\ UNCHANGED ret
    /\ UNCHANGED <<globals, outside, args, localAddr, broadcastAddr, data, deadline, wire>>

\* The encoding step with NewMagicPacket's error ignored: the send goes on to
\* the write with an empty packet.
EncodeUDPUnchecked ==
    /\ pc = "udp_encode"
    /\ LET p == NewMagicPacket(mac)
       IN  data' = IF p.err # NilErr THEN NilBytes ELSE Marshal(p.mac).data
    /\ pc' = "udp_write"
    /\ UNCHANGED <<globals, outside, args, localAddr, broadcastAddr, conn, deadline, ret,
                   openSockets, ops, wire>>

\* Lines 73-81: NewMagicPacket and Marshal, with the socket open.
EncodeUDP ==
    /\ pc = "udp_encode"
    /\ LET p == NewMagicPacket(mac)
       IN  IF p.err # NilErr
           THEN /\ Returns(NilBytes, p.err)
                /\ openSockets' = DeferredClose(openSockets, conn.id, p.err)
                /\ UNCHANGED data
           ELSE LET d == Marshal(p.mac)
                IN  IF d.err # NilErr
                    THEN /\ Returns(NilBytes, d.err)
                         /\ openSockets' = DeferredClose(openSockets, conn.id, d.err)
                         /\ UNCHANGED data
                    ELSE /\ data' = d.data
                         /\ pc' = "udp_write"
                         /\ UNCHANGED <<ret, openSockets>>
    /\ UNCHANGED <<globals, outside, args, localAddr, broadcastAddr, conn, deadline, ops, wire>>

\* sendUDPDiscard without the check of the count: the write's error alone.
DiscardResultUnchecked(n, err) == err

\* Lines 84-87: the error sendUDPDiscard returns for what the write reported.
DiscardResult(n, err) ==
    IF err = NilErr /\ n # PacketLen THEN <<"ShortWrite">> ELSE err

\* Lines 83-88: the one write, the check of its count, the return.
WriteUDP ==
    /\ pc = "udp_write"
    /\ Written(net.write)
    /\ LET err == DiscardResult(net.write.n, net.write.err)
       IN  /\ Returns(NilBytes, err)
           /\ openSockets' = DeferredClose(openSockets, conn.id, err)
    /\ UNCHANGED <<globals, outside, args, localAddr, broadcastAddr, conn, data, deadline>>

\* ------------------------------------------------------------- sendICMPEcho
\* Lines 121-126: what sendICMPEcho returns for the bytes read.
EchoResult(sent, reply) ==
    IF ~BytesEqual(sent, reply)
    THEN [res |-> NilBytes, err |-> <<"EchoMismatch">>]
    ELSE [res |-> reply, err |-> NilErr]

\* The whole function, one step per call of it. The conversion of localAddr
\* on line 92 is evaluated before DialIP is called.
sendICMPEcho ==
    /\ pc \in {"icmp_dial", "icmp_encode", "icmp_write", "icmp_read"}
    /\ CASE pc = "icmp_dial" ->
              \* lines 92-96
              /\ IF ~TypeAssertion(localAddr, "IPAddr")
                 THEN Panics("interface conversion") /\ UNCHANGED <<conn, openSockets, ops>>
                 ELSE IF ~net.dialOK
                 THEN /\ Returns(NilBytes, <<"SocketError">>)
                      /\ UNCHANGED <<conn, openSockets, ops>>
                 ELSE /\ Dialled("ip4:icmp", localAddr.IP, broadcastAddr, 0)
                      /\ pc' = "icmp_encode"
                      /\ UNCHANGED ret
              /\ UNCHANGED <<data, deadline, wire>>
         [] pc = "icmp_encode" ->
              \* lines 98-106
              /\ LET p == NewMagicPacket(mac)
                 IN  IF p.err # NilErr
                     THEN /\ Returns(NilBytes, p.err)
                          /\ openSockets' = DeferredClose(openSockets, conn.id, p.err)
                          /\ UNCHANGED data
                     ELSE LET d == Marshal(p.mac)
                          IN  IF d.err # NilErr
                              THEN /\ Returns(NilBytes, d.err)
                                   /\ openSockets' = DeferredClose(openSockets, conn.id, d.err)
                                   /\ UNCHANGED data
                              ELSE /\ data' = d.data
                                   /\ pc' = "icmp_write"
                                   /\ UNCHANGED <<ret, openSockets>>
              /\ UNCHANGED <<conn, deadline, ops, wire>>
         [] pc = "icmp_write" ->
              \* lines 109-115: the write, then the deadline of the read
              /\ Written(net.write)
              /\ IF net.write.err # NilErr
                 THEN /\ Returns(NilBytes, net.write.err)
                      /\ openSockets' = DeferredClose(openSockets, conn.id, net.write.err)
                      /\ UNCHANGED deadline
                 ELSE /\ deadline' = ReadDeadlineSeconds
                      /\ pc' = "icmp_read"
                      /\ UNCHANGED <<ret, openSockets>>
              /\ UNCHANGED <<conn, data>>
         [] pc = "icmp_read" ->
              \* lines 116-126: the read returns when a reply arrives, when it
              \* fails, or when the deadline passes; with no deadline and a
              \* silent peer it does not return.
              /\ net.read = "silent" => deadline > 0
              /\ ops' = [ops EXCEPT !.read = @ + 1]
              /\ IF net.read \in {"silent", "error"}
                 THEN /\ Returns(NilBytes, <<"NoEchoResponse">>)
                      /\ openSockets' = DeferredClose(openSockets, conn.id, <<"NoEchoResponse">>)
                 ELSE LET arrived == ReplyBytes(net.read, SubSeq(data, 1, net.write.n))
                          n == IF Len(arrived) < ReadBufLen THEN Len(arrived) ELSE ReadBufLen
                          reply == SubSeq(arrived, 1, n)
                          r == EchoResult(data, reply)
                      IN  /\ Returns(r.res, r.err)
                          /\ openSockets' = DeferredClose(openSockets, conn.id, r.err)
              /\ UNCHANGED <<conn, data, deadline, wire>>
    /\ UNCHANGED <<globals, outside, args, localAddr, broadcastAddr>>

\* ------------------------------------------------------------- specification
Next ==
    \/ Send
    \/ SendWithInterface
    \/ ResolveInterface
    \/ Switch
    \/ DialUDP
    \/ EncodeUDP
    \/ WriteUDP
    \/ sendICMPEcho

Spec == Init /\ [][Next]_vars

\* The call runs on a goroutine the scheduler keeps running, and the socket
\* layer and the deadline timer answer: every step of a call that can be
\* taken is taken.
Running ==
    \/ ResolveInterface
    \/ Switch
    \/ DialUDP
    \/ EncodeUDP
    \/ WriteUDP
    \/ sendICMPEcho

FairSpec == Spec /\ WF_vars(Running)

\* ------------------------------------------------------------- two goroutines
\* The locals of the call that runs, as a value.
Current ==
    [pc |-> pc, viaSend |-> viaSend, mac |-> mac, iface |-> iface, protocol |-> protocol,
     net |-> net, localAddr |-> localAddr, broadcastAddr |-> broadcastAddr, conn |-> conn,
     data |-> data, deadline |-> deadline, ret |-> ret, ops |-> ops]

\* The scheduler switches goroutines between two steps: the call that ran is
\* set aside and the other one runs. The package variables, the sockets and
\* the network are the process's and stay.
Yield ==
    /\ other.pc \notin {"Killed", "NeverStarted"}
    /\ other' = Current
    /\ self' = 3 - self
    /\ pc' = other.pc /\ viaSend' = other.viaSend /\ mac' = other.mac
    /\ iface' = other.iface /\ protocol' = other.protocol /\ net' = other.net
    /\ localAddr' = other.localAddr /\ broadcastAddr' = other.broadcastAddr
    /\ conn' = other.conn /\ data' = other.data /\ deadline' = other.deadline
    /\ ret' = other.ret /\ ops' = other.ops
    /\ UNCHANGED <<globals, openSockets, wire, probe>>

\* A panic that the goroutine's caller does not recover ends the process:
\* the other goroutine stops where it stands and the OS closes the sockets.
\* (A caller that recovers leaves this step out.)
Crash ==
    /\ pc = "Panicked"
    /\ other.pc \notin {"Returned", "Panicked", "Killed", "NeverStarted"}
    /\ other' = [other EXCEPT !.pc = IF @ = "Idle" THEN "NeverStarted" ELSE "Killed"]
    /\ openSockets' = {}
    /\ UNCHANGED <<globals, args, pc, localAddr, broadcastAddr, conn, data, deadline, ret,
                   ops, wire, self, probe>>

\* The calls the two goroutines make, and the networks they meet.
ConcMACs ==
    { <<"A", "A", ":", "B", "B", ":", "C", "C", ":", "D", "D", ":", "E", "E", ":", "F", "F">>,
      <<"G", "G", ":", "B", "B", ":", "C", "C", ":", "D", "D", ":", "E", "E", ":", "F", "F">> }
ConcIfaces == {"", "eth0", "eth1"}
ConcProtocols == {Discard, Echo}
ConcNets == {QuietNet, [QuietNet EXCEPT !.write = [n |-> 0, err |-> NilErr]]}

ConcInit ==
    /\ ProcessStart
    /\ IdleCall
    /\ net \in ConcNets
    /\ other \in {IdleContext(n) : n \in ConcNets}
    /\ probe = NoProbe

ConcEnter == \E m \in ConcMACs, i \in ConcIfaces, p \in ConcProtocols : Enter(m, i, p, FALSE)

ConcNext == ConcEnter \/ Running \/ Yield \/ Crash

ConcSpec == ConcInit /\ [][ConcNext]_vars

\* ------------------------------------------------------------- the pure functions, called directly
\* The octets the addresses and the masks tried are made of.
ProbeAddrOctets == {1, 42, 168, 192}
ProbeMaskOctets == {0, 85, 240, 255}

\* All 4-byte address / 4-byte mask pairs over these octets.
ProbeIPNets ==
    {[IP |-> a, Mask |-> m] : a \in [1..4 -> ProbeAddrOctets], m \in [1..4 -> ProbeMaskOctets]}

\* No call of SendWithInterface is in progress or starts.
NoCall ==
    /\ ProcessStart
    /\ IdleCall
    /\ net = QuietNet
    /\ other = IdleContext(QuietNet)

BroadcastInit ==
    /\ NoCall
    /\ probe \in {[fn |-> "subnetBroadcastIP", arg |-> n, ipnet |-> n, done |-> FALSE,
                   out |-> [panic |-> FALSE, ip |-> <<>>, err |-> NilErr]] : n \in ProbeIPNets}

\* subnetBroadcastIP(probe.ipnet): out is what it returns, ipnet its argument
\* after the call.
CallSubnetBroadcastIP ==
    /\ probe.fn = "subnetBroadcastIP"
    /\ ~probe.done
    /\ LET r == subnetBroadcastIP(probe.ipnet)
       IN  probe' = [probe EXCEPT !.done = TRUE,
                                  !.ipnet = r.ipnet,
                                  !.out = [panic |-> r.panic, ip |-> r.ip, err |-> r.err]]
    /\ UNCHANGED <<globals, args, pc, localAddr, broadcastAddr, conn, data, deadline, ret,
                   openSockets, ops, wire, self, other>>

BroadcastSpec == BroadcastInit /\ [][CallSubnetBroadcastIP]_vars

\* The entries an address list is made of: IPv4 in both stored forms,
\* loopback in both forms, IPv6, and an address that is no *net.IPNet.
ProbeAddrs ==
    { IPNet(<<192, 168, 1, 42>>, <<255, 255, 255, 0>>),
      IPNet(<<172, 16, 5, 9>>, <<255, 255, 0, 0>>),
      IPNet(IPv4(10, 0, 0, 5), <<255, 0, 0, 0>>),
      IPNet(<<127, 0, 0, 1>>, <<255, 0, 0, 0>>),
      IPNet(IPv4(127, 0, 0, 1), <<255, 0, 0, 0>>),
      IPNet(<<0, 0, 0, 0, 0, 0, 0, 0, 0, 0, 0, 0, 0, 0, 0, 1>>,
            <<255, 255, 255, 255, 255, 255, 255, 255, 255, 255, 255, 255, 255, 255, 255, 255>>),
      IPNet(<<254, 128, 0, 0, 0, 0, 0, 0, 0, 0, 0, 0, 0, 0, 0, 1>>,
            <<255, 255, 255, 255, 255, 255, 255, 255, 0, 0, 0, 0, 0, 0, 0, 0>>),
      [type |-> "IPAddr", IP |-> <<172, 16, 5, 1>>, Mask |-> <<>>] }

\* The address lists tried: every list of at most MaxAddrs entries.
ProbeAddrLists == UNION {[1..k -> ProbeAddrs] : k \in 0..MaxAddrs}

ResolverInit ==
    /\ NoCall
    /\ probe \in {[fn |-> "ipFromInterface", addrs |-> l, addrsFail |-> f, done |-> FALSE,
                   out |-> [ipnet |-> NilIPNet, err |-> NilErr]] :
                      l \in ProbeAddrLists, f \in BOOLEAN}

\* ipFromInterface on an interface that exists and lists probe.addrs.
CallIPFromInterface ==
    /\ probe.fn = "ipFromInterface"
    /\ ~probe.done
    /\ probe' = [probe EXCEPT !.done = TRUE, !.out = SelectAddr(probe.addrs, probe.addrsFail)]
    /\ UNCHANGED <<globals, args, pc, localAddr, broadcastAddr, conn, data, deadline, ret,
                   openSockets, ops, wire, self, other>>

ResolverSpec == ResolverInit /\ [][CallIPFromInterface]_vars

\* ------------------------------------------------------------- properties
Ended == pc \in {"Returned", "Panicked"}
Succeeded == pc = "Returned" /\ ret.err = NilErr
ValidMAC == NewMagicPacket(mac).err = NilErr
MagicPacket == Marshal(NewMagicPacket(mac).mac).data
GlobalBroadcast == <<255, 255, 255, 255>>

\* The interface argument does not stop the call: none is given, or the named
\* one resolves and its broadcast address is computed.
InterfaceUsable ==
    \/ iface = ""
    \/ /\ ipFromInterface(iface, net.addrsFail).err = NilErr
       /\ ~subnetBroadcastIP(ipFromInterface(iface, net.addrsFail).ipnet).panic

\* Nothing outside the program keeps an Echo send from its read: the MAC is
\* valid, the interface usable, the dial and the write succeed.
EchoExchange ==
    /\ protocol = Echo
    /\ ValidMAC
    /\ InterfaceUsable
    /\ net.dialOK
    /\ net.write = [n |-> PacketLen, err |-> NilErr]

\* C1: a call of SendWithInterface ends by returning, never by a panic, and
\* what it returns is a success (with bytes only for Echo) or one error,
\* never both a result and an error.
C1_ReturnsSuccessOrOneError ==
    /\ pc # "Panicked"
    /\ pc = "Returned" =>
          /\ ~(ret.res # NilBytes /\ ret.err # NilErr)
          /\ ret.res # NilBytes => protocol = Echo

\* C2: a Discard send of a valid MAC without an interface, over a socket
\* layer that works, hands the 102-byte magic packet to the network exactly
\* once, for 255.255.255.255 port 9, and returns success.
C2_GlobalBroadcastSend ==
    ( /\ Ended
      /\ iface = ""
      /\ protocol = Discard
      /\ ValidMAC
      /\ net.dialOK
      /\ net.write = [n |-> PacketLen, err |-> NilErr] )
    => /\ Succeeded
       /\ Len(wire) = 1
       /\ wire[1].dst = GlobalBroadcast
       /\ wire[1].port = 9
       /\ wire[1].payload = MagicPacket

\* C3: with a non-empty interface name that no interface has, the call
\* returns the InterfaceNotFound error (joined to its context) whatever the
\* MAC and the protocol, and never goes on to the switch: no socket is
\* opened, nothing is written.
C3_UnknownInterfaceFails ==
    (pc # "Idle" /\ iface # "" /\ iface \notin DOMAIN Interfaces)
    => /\ pc \in {"resolve", "Returned"}
       /\ pc = "Returned" =>
             /\ ret.err = Join(<<"UnableToGetAddress">>, <<"InterfaceNotFound">>)
             /\ ret.res = NilBytes
       /\ ops.open = 0
       /\ ops.write = 0
       /\ openSockets = {}
       /\ wire = <<>>

\* A call with an unknown interface name has returned InterfaceNotFound, for
\* an Echo send of a valid MAC.
C3_Witness ==
    /\ pc = "Returned"
    /\ iface = "nope0"
    /\ protocol = Echo
    /\ ValidMAC
    /\ IsErr(ret.err, "InterfaceNotFound")

\* C4: the MAC is parsed first: a call with a malformed MAC resolves no
\* interface and opens no socket, and ends with InvalidAddressFormat,
\* whatever the interface name and the protocol.
C4_MACParsedFirst ==
    (pc # "Idle" /\ ~ValidMAC)
    => /\ ops.resolve = 0
       /\ ops.open = 0
       /\ Ended => (pc = "Returned" /\ ret.err = <<"InvalidAddressFormat">>)

C6_EchoReturned ==
    (Ended /\ EchoExchange /\ net.read = "echo")
    => (Succeeded /\ ret.res = MagicPacket)

C8_EveryCallReturns == (pc # "Idle") ~> (pc = "Returned")

\* C9: a call holds at most one open socket, and when it has ended every
\* socket it opened is closed.
C9_SocketsClosed ==
    /\ Cardinality(openSockets) <= 1
    /\ Ended => openSockets = {}

\* A call has opened a socket and ended with the write's error after the open.
C9_Witness ==
    /\ pc = "Returned"
    /\ ops.open = 1
    /\ conn.id = 1
    /\ ret.err = <<"WriteError">>
    /\ openSockets = {}

\* C10: a Discard send succeeds only if its one write reported no error and
\* 102 bytes; a write reporting another count without error gives
\* ShortWrite, a write that fails gives the write's error.
C10_DiscardWriteChecked ==
    (pc = "Returned" /\ protocol = Discard)
    => /\ ret.err = NilErr =>
             (ops.write = 1 /\ net.write = [n |-> PacketLen, err |-> NilErr])
       /\ ops.write = 1 =>
             /\ (net.write.err = NilErr /\ net.write.n = PacketLen) => ret.err = NilErr
             /\ (net.write.err = NilErr /\ net.write.n # PacketLen) => ret.err = <<"ShortWrite">>
             /\ net.write.err # NilErr => ret.err = net.write.err

\* A Discard send has written fewer than 102 bytes and returned ShortWrite.
C10_Witness ==
    /\ pc = "Returned"
    /\ protocol = Discard
    /\ ops.write = 1
    /\ net.write = [n |-> PacketLen - 1, err |-> NilErr]
    /\ ret.err = <<"ShortWrite">>

\* C11 as stated: whatever the MAC and the interface name, the error a call
\* with a selector other than Discard and Echo returns is UnsupportedProtocol
\* and no other kind.
C11_AlwaysUnsupportedProtocol ==
    (pc = "Returned" /\ protocol \notin {Discard, Echo})
    => ret.err = <<"UnsupportedProtocol">>

\* C11 amended: a call with a selector other than Discard and Echo opens no
\* socket and writes nothing; it ends with UnsupportedProtocol alone whenever
\* it gets to the switch (no interface given, or the interface step
\* completes), and ends in the interface step otherwise, with the resolver's
\* error and never with UnsupportedProtocol.
C11_UnsupportedProtocolFails ==
    (pc # "Idle" /\ protocol \notin {Discard, Echo})
    => /\ pc \in {"resolve", "switch", "Returned", "Panicked"}
       /\ ops.open = 0
       /\ ops.write = 0
       /\ openSockets = {}
       /\ wire = <<>>
       /\ (Ended /\ InterfaceUsable) =>
             (pc = "Returned" /\ ret.err = <<"UnsupportedProtocol">> /\ ret.res = NilBytes)
       /\ (Ended /\ ~InterfaceUsable) =>
             /\ ops.resolve = 1
             /\ ~IsErr(ret.err, "UnsupportedProtocol")
             /\ pc = "Returned" => IsErr(ret.err, "UnableToGetAddress")

\* A call through a resolved interface, with a malformed MAC and the selector
\* -1, has returned UnsupportedProtocol.
C11_Witness ==
    /\ pc = "Returned"
    /\ protocol = -1
    /\ iface = "eth0"
    /\ ~ValidMAC
    /\ ops.resolve = 1
    /\ ret.err = <<"UnsupportedProtocol">>

\* C13: one call resolves at most one interface, opens at most one socket,
\* writes at most once and (Echo only) reads at most once, each step only
\* after the one before it; a call that returned an error did nothing after
\* the step that failed.
C13_OneShot ==
    /\ ops.resolve <= 1 /\ ops.open <= 1 /\ ops.write <= 1 /\ ops.read <= 1
    /\ Len(wire) <= ops.write
    /\ ops.resolve = 1 => iface # ""
    /\ ops.write = 1 => ops.open = 1
    /\ ops.read = 1 => (ops.write = 1 /\ protocol = Echo)
    /\ (pc = "Returned" /\ IsErr(ret.err, "UnableToGetAddress")) =>
          (ops.open = 0 /\ ops.write = 0 /\ ops.read = 0)
    /\ (pc = "Returned" /\ ret.err \in {<<"SocketError">>, <<"DestinationResolutionFailed">>,
                                       <<"UnsupportedProtocol">>}) =>
          (ops.open = 0 /\ ops.write = 0 /\ ops.read = 0)
    /\ (pc = "Returned" /\ ret.err = <<"InvalidAddressFormat">>) =>
          (ops.open = 1 /\ ops.write = 0 /\ ops.read = 0)
    /\ (pc = "Returned" /\ ret.err \in {<<"WriteError">>, <<"ShortWrite">>}) =>
          (ops.write = 1 /\ ops.read = 0)

\* A call has resolved, opened and written once, the write reported 0 bytes,
\* and the call has returned ShortWrite without writing again.
C13_Witness ==
    /\ pc = "Returned"
    /\ net.write = [n |-> 0, err |-> NilErr]
    /\ ret.err = <<"ShortWrite">>
    /\ ops = [resolve |-> 1, open |-> 1, write |-> 1, read |-> 0]
    /\ Len(wire) = 1

\* Bit k of the byte x.
Bit(x, k) == (x \div (2 ^ k)) % 2

\* C14: for every 4-byte address and 4-byte mask subnetBroadcastIP returns,
\* without error or panic, the 4 bytes whose every bit is the address's bit
\* where the mask has a 1 and 1 where the mask has a 0, which is
\* (address AND mask) OR (NOT mask); 192.168.1.42 with 255.255.255.0 gives
\* 192.168.1.255; the address and the mask are left as they were.
C14_SubnetBroadcast ==
    (probe.fn = "subnetBroadcastIP" /\ probe.done)
    => /\ ~probe.out.panic
       /\ probe.out.err = NilErr
       /\ Len(probe.out.ip) = 4
       /\ \A i \in 1..4 : \A k \in 0..7 :
             Bit(probe.out.ip[i], k) =
                IF Bit(probe.arg.Mask[i], k) = 1 THEN Bit(probe.arg.IP[i], k) ELSE 1
       /\ probe.ipnet = probe.arg
       /\ probe.arg = [IP |-> <<192, 168, 1, 42>>, Mask |-> <<255, 255, 255, 0>>]
             => probe.out.ip = <<192, 168, 1, 255>>

\* subnetBroadcastIP has been called on 192.168.1.42 / 255.255.255.0 and has
\* returned 192.168.1.255.
C14_Witness ==
    /\ probe.fn = "subnetBroadcastIP"
    /\ probe.done
    /\ probe.arg = [IP |-> <<192, 168, 1, 42>>, Mask |-> <<255, 255, 255, 0>>]
    /\ probe.out.ip = <<192, 168, 1, 255>>

\* An IPv4 address, in 4 bytes or in the 16-byte IPv4-mapped form.
IsIPv4Addr(ip) ==
    \/ Len(ip) = 4
    \/ /\ Len(ip) = 16
       /\ \A i \in 1..10 : ip[i] = 0
       /\ ip[11] = 255 /\ ip[12] = 255

\* A loopback address: 127.x.x.x, or ::1.
IsLoopbackAddr(ip) ==
    \/ Len(ip) = 4 /\ ip[1] = 127
    \/ IsIPv4Addr(ip) /\ Len(ip) = 16 /\ ip[13] = 127
    \/ Len(ip) = 16 /\ ip[16] = 1 /\ \A i \in 1..15 : ip[i] = 0

\* The entries the resolver may return: IP networks, not loopback, IPv4.
Qualifies(a) == a.type = "IPNet" /\ ~IsLoopbackAddr(a.IP) /\ IsIPv4Addr(a.IP)

\* C16: for an existing interface ipFromInterface returns the first entry, in
\* list order, that is an IP network, not loopback and IPv4; it fails with
\* NoAddressForInterface exactly when the list is empty or cannot be read,
\* and with NoIPv4Address exactly when the list is read, not empty and holds
\* no such entry; what it returns is never loopback and always IPv4.
C16_FirstQualifyingAddress ==
    (probe.fn = "ipFromInterface" /\ probe.done)
    => LET l == probe.addrs
           r == probe.out
           unread == probe.addrsFail \/ l = <<>>
           found == {i \in 1..Len(l) : Qualifies(l[i])}
       IN  /\ r.err \in {NilErr, <<"NoAddressForInterface">>, <<"NoIPv4Address">>}
           /\ r.err = <<"NoAddressForInterface">> <=> unread
           /\ r.err = <<"NoIPv4Address">> <=> (~unread /\ found = {})
           /\ r.err = NilErr =>
                 /\ \E i \in found :
                       /\ \A j \in found : i <= j
                       /\ r.ipnet = [IP |-> l[i].IP, Mask |-> l[i].Mask]
                 /\ ~IsLoopbackAddr(r.ipnet.IP)
                 /\ IsIPv4Addr(r.ipnet.IP)

\* ipFromInterface has been called on a list that holds a loopback address,
\* then an IPv6 address, then 172.16.5.9, and has returned 172.16.5.9.
C16_Witness ==
    /\ probe.fn = "ipFromInterface"
    /\ probe.done
    /\ ~probe.addrsFail
    /\ Len(probe.addrs) = 3
    /\ probe.addrs[1].IP = <<127, 0, 0, 1>>
    /\ Len(probe.addrs[2].IP) = 16 /\ probe.addrs[2].IP[1] = 254
    /\ probe.out = [ipnet |-> [IP |-> <<172, 16, 5, 9>>, Mask |-> <<255, 255, 0, 0>>],
                    err |-> NilErr]

\* What ipFromInterface returns to the call in progress.
Resolved == ipFromInterface(iface, net.addrsFail)

C17_BroadcastComputed ==
    (iface # "" /\ ops.resolve = 1 /\ Resolved.err = NilErr)
    => (pc # "Panicked" /\ Len(broadcastAddr) = 4)

\* C18: a call with a malformed MAC writes nothing under either protocol and
\* leaves no socket open; once it has opened a socket it ends by returning
\* the codec's error.
C18_MalformedMACWritesNothing ==
    (pc # "Idle" /\ ~ValidMAC)
    => /\ ops.write = 0
       /\ wire = <<>>
       /\ pc \notin {"udp_write", "icmp_write", "icmp_read"}
       /\ Ended => openSockets = {}
       /\ (Ended /\ ops.open = 1) =>
             (pc = "Returned" /\ ret.err = NewMagicPacket(mac).err /\ ret.res = NilBytes)

\* A Discard send of a string with a non-hex octet has opened a socket, has
\* returned InvalidAddressFormat and has closed the socket, without a write.
C18_Witness ==
    /\ pc = "Returned"
    /\ Len(mac) = 17 /\ mac[1] = "G"
    /\ ops.open = 1
    /\ ops.write = 0
    /\ ret.err = <<"InvalidAddressFormat">>
    /\ openSockets = {}
    /\ wire = <<>>

\* What sendUDPDiscard does for a call alone in the process: how it ends,
\* what it returns, what it sends.
SoloDiscard(m, n, la, bc) ==
    LET ra == ResolveUDPAddr(bc, InitialDefaultPort)
        p == NewMagicPacket(m)
        w == n.write
        returned(err) == [end |-> "Returned", res |-> NilBytes, err |-> err, sent |-> <<>>]
    IN  IF ra.err # NilErr THEN returned(ra.err)
        ELSE IF ~TypeAssertion(la, "UDPAddr")
        THEN [end |-> "Panicked", res |-> NilBytes, err |-> NilErr, sent |-> <<>>]
        ELSE IF ~n.dialOK THEN returned(<<"SocketError">>)
        ELSE IF p.err # NilErr THEN returned(p.err)
        ELSE [end |-> "Returned", res |-> NilBytes, err |-> DiscardResult(w.n, w.err),
              sent |-> IF w.err # NilErr THEN <<>>
                       ELSE <<[dst |-> ra.addr.IP, port |-> ra.addr.Port,
                               payload |-> SubSeq(Marshal(p.mac).data, 1, w.n)]>>]

\* The same for sendICMPEcho.
SoloEcho(m, n, la, bc) ==
    LET p == NewMagicPacket(m)
        w == n.write
        d == Marshal(p.mac).data
        sent == <<[dst |-> bc, port |-> 0, payload |-> SubSeq(d, 1, w.n)]>>
        returned(res, err, s) == [end |-> "Returned", res |-> res, err |-> err, sent |-> s]
    IN  IF ~TypeAssertion(la, "IPAddr")
        THEN [end |-> "Panicked", res |-> NilBytes, err |-> NilErr, sent |-> <<>>]
        ELSE IF ~n.dialOK THEN returned(NilBytes, <<"SocketError">>, <<>>)
        ELSE IF p.err # NilErr THEN returned(NilBytes, p.err, <<>>)
        ELSE IF w.err # NilErr THEN returned(NilBytes, w.err, <<>>)
        ELSE IF n.read \in {"silent", "error"}
        THEN returned(NilBytes, <<"NoEchoResponse">>, sent)
        ELSE LET r == EchoResult(d, ReplyBytes(n.read, SubSeq(d, 1, w.n)))
             IN  returned(r.res, r.err, sent)

\* The outcome of SendWithInterface(m, i, p) for a call alone in the process,
\* on the network n.
SoloOutcome(m, i, p, n) ==
    LET r == ipFromInterface(i, n.addrsFail)
        b == subnetBroadcastIP(r.ipnet)
        la == IF i = "" THEN NilAddr ELSE [type |-> "UDPAddr", IP |-> r.ipnet.IP]
        bc == IF i = "" THEN InitialDefaultBroadcast ELSE b.ip
    IN  IF i # "" /\ r.err # NilErr
        THEN [end |-> "Returned", res |-> NilBytes,
              err |-> Join(<<"UnableToGetAddress">>, r.err), sent |-> <<>>]
        ELSE IF i # "" /\ b.panic
        THEN [end |-> "Panicked", res |-> NilBytes, err |-> NilErr, sent |-> <<>>]
        ELSE IF p = Discard THEN SoloDiscard(m, n, la, bc)
        ELSE IF p = Echo THEN SoloEcho(m, n, la, bc)
        ELSE [end |-> "Returned", res |-> NilBytes, err |-> <<"UnsupportedProtocol">>,
              sent |-> <<>>]

\* The packets goroutine g has handed to the network.
SentBy(g) ==
    LET mine == SelectSeq(wire, LAMBDA x : x.by = g)
    IN  [j \in 1..Len(mine) |->
            [dst |-> mine[j].dst, port |-> mine[j].port, payload |-> mine[j].payload]]

\* The call c of goroutine g, if it was started and is over, ended as it
\* would have alone. A call stopped with the process counts as ended alike
\* only if alone it would have ended by a panic itself.
AsAlone(c, g) ==
    /\ c.pc \in {"Returned", "Panicked"}
          => [end |-> c.pc, res |-> c.ret.res, err |-> c.ret.err, sent |-> SentBy(g)]
                = SoloOutcome(c.mac, c.iface, c.protocol, c.net)
    /\ c.pc = "Killed" => SoloOutcome(c.mac, c.iface, c.protocol, c.net).end = "Panicked"

\* A call alone in the process ends as SoloOutcome says.
SoloOutcomeIsTheCall == AsAlone(Current, self)

\* C12: no send writes DefaultPort or DefaultBroadcast, and each of two
\* concurrent sends, however their steps interleave, ends as it would have
\* alone on the same network: same destination and payload sent, same result.
C12_SendsIndependent ==
    /\ DefaultPort = InitialDefaultPort
    /\ DefaultBroadcast = InitialDefaultBroadcast
    /\ AsAlone(Current, self)
    /\ AsAlone(other, 3 - self)

\* The part of C12 that holds: the package variables are never written, and
\* a send that is not cut short by the other goroutine's panic ends as it
\* would have alone.
C12_IndependentUnlessKilled ==
    /\ DefaultPort = InitialDefaultPort
    /\ DefaultBroadcast = InitialDefaultBroadcast
    /\ AsAlone(Current, self)
    /\ other.pc # "Killed" => AsAlone(other, 3 - self)

====
